---- MODULE Spec2Model ----
(***************************************************************************)
(* Model of firebase-admin-ql:                                             *)
(*   - the request pipeline  chainMiddlewares (src/middleware/firebase.ts) *)
(*   - the procedure call and Firestore backup                             *)
(*     PgBaseModel.call / saveToFirestore (src/services/postgres.db.ts),   *)
(*     PgDatabase.runStoredMethod (src/config/postgres.config.ts) and      *)
(*     FirebaseModel.doBackup / findWhere / save (services/firestore.db).  *)
(***************************************************************************)
EXTENDS Integers, Sequences, FiniteSets, TLC

(***************************************************************************)
(* Bounds of the model.                                                    *)
(***************************************************************************)
\* longest guard list given to chainMiddlewares
MaxGuards == 2
\* most activations of execute() in one pipeline execution
MaxActs == 4

\* the request objects a caller may pass
Requests == {"r1", "r2"}
\* the values a handler may return
HandlerValues == {"v1", "v2"}

NoVal == "none"

VARIABLES
    \* ---- request pipeline ----
    middlewares,    \* middlewares.length of the running pipeline
    request,        \* the request given to chainMiddlewares
    acts,           \* the activations of execute(index), in creation order
    stack,          \* synchronous call stack: ids of activations, top last
    guardCalls,     \* guardCalls[i]: times guard i was invoked
    nextCalls,      \* nextCalls[i]: times guard i's continuation was invoked
    handlerCalls,   \* times the handler was invoked
    \* ---- procedure call and backup ----
    store,          \* the Firestore collections: store[c][id]
    backups,        \* dbData.backups of the calls
    procData,       \* the data of the Message the procedure returns
    callLimit,      \* calls the caller makes
    calls,          \* calls of PgBaseModel.call started so far
    pc,             \* where the running call is
    returnValue,    \* what runStoredMethod returned to call
    bk,             \* the backups of the running call, one per spec
    result,         \* the Message the last call returned
    dbDestroyed,    \* whether this.db (the Knex handle) was destroyed
    storeOps,       \* Firestore operations issued by the running call
    prev,           \* the backups and the store at the previous call's return
    pg,             \* the relational engine: its catalog and the procedure
    order,          \* this.order.length: the parameters call passes
    error,          \* the error call's catch block caught (and logged)
    execs,          \* CALL statements the running call executed
    \* ---- PgFormData ----
    formData,       \* this.data: the field bag
    formOrder,      \* this.order: the names, in parameter order
    values,         \* what the `values` getter returned
    \* ---- callableFunctionWrapper ----
    withAuth,       \* the wrapper's withAuth argument
    app,            \* whether request.app is defined
    auth,           \* whether request.auth is defined
    callbackThrew,  \* whether the callback threw
    reply           \* what the callable returned to its caller

pipeVars == <<middlewares, request, acts, stack, guardCalls, nextCalls, handlerCalls>>

callVars == <<store, backups, procData, callLimit, calls, pc, returnValue, bk,
              result, dbDestroyed, storeOps, prev, pg, order, error, execs>>

formVars == <<formData, formOrder, values>>

wrapVars == <<withAuth, app, auth, callbackThrew, reply>>

vars == <<pipeVars, callVars, formVars, wrapVars>>

(***************************************************************************)
(* chainMiddlewares                                                        *)
(*                                                                         *)
(* An activation is one call of execute(index).  For index < length it     *)
(* owns the Promise built around the call of middlewares[index]; for       *)
(* index = length it is the async call of the handler.                     *)
(*   idx       the index given to execute                                  *)
(*   parent    the activation whose continuation made the call (0: the     *)
(*             call execute(0) of chainMiddlewares itself)                 *)
(*   st        of the guard/handler function: running, returned, threw     *)
(*   promise   pending, fulfilled, rejected                                *)
(*   val       the value or the error the promise settled with             *)
(*   req       the request the guard/handler received                      *)
(*   delivered whether `resolve(await execute(index + 1))` of the parent   *)
(*             has resumed with this activation's settlement               *)
(***************************************************************************)
GuardError(i) == <<"guardError", i>>
HandlerError == <<"handlerError">>

\* execute(0): the index chainMiddlewares starts the chain with
StartFromOne == 0 + 1
StartIndex == 0

\* execute(index + 1): the index a continuation passes on
NextIndexSkip(index) == index + 2
NextIndex(index) == index + 1

IsHandlerIndex(index) == ~(index < middlewares)

NewAct(index, par) ==
    [idx |-> index, parent |-> par, st |-> "running", promise |-> "pending",
     val |-> NoVal, req |-> request, delivered |-> FALSE]

\* the synchronous part of execute(index): build the Promise and call
\* middlewares[index](request, continuation), or call handler(request)
execute(index, par) ==
    /\ Len(acts) < MaxActs
    /\ acts' = Append(acts, NewAct(index, par))
    /\ stack' = Append(stack, Len(acts) + 1)
    /\ IF IsHandlerIndex(index)
       THEN /\ handlerCalls' = handlerCalls + 1
            /\ UNCHANGED guardCalls
       ELSE /\ guardCalls' = [guardCalls EXCEPT ![index] = @ + 1]
            /\ UNCHANGED handlerCalls

Top == stack[Len(stack)]
Pop == SubSeq(stack, 1, Len(stack) - 1)

RunningGuard(a) ==
    /\ stack # <<>> /\ a = Top
    /\ acts[a].st = "running"
    /\ ~IsHandlerIndex(acts[a].idx)

RunningHandler(a) ==
    /\ stack # <<>> /\ a = Top
    /\ acts[a].st = "running"
    /\ IsHandlerIndex(acts[a].idx)

\* return await execute(0)
ChainStart ==
    /\ acts = <<>>
    /\ execute(StartIndex, 0)
    /\ UNCHANGED <<middlewares, request, nextCalls, callVars, formVars, wrapVars>>

\* the continuation `async () => { resolve(await execute(index + 1)); }`
\* called by guard a: execute(index + 1) runs synchronously up to its await
Continuation(a) ==
    /\ nextCalls' = [nextCalls EXCEPT ![acts[a].idx] = @ + 1]
    /\ execute(NextIndex(acts[a].idx), a)
    /\ UNCHANGED <<middlewares, request, callVars, formVars, wrapVars>>

\* a guard invokes its continuation while it runs
GuardNext ==
    \E a \in 1..Len(acts) :
        /\ RunningGuard(a)
        /\ Continuation(a)

\* a guard returns without raising (it may have kept its continuation)
GuardReturn ==
    \E a \in 1..Len(acts) :
        /\ RunningGuard(a)
        /\ acts' = [acts EXCEPT ![a].st = "returned"]
        /\ stack' = Pop
        /\ UNCHANGED <<middlewares, request, guardCalls, nextCalls, handlerCalls, callVars, formVars, wrapVars>>

\* a guard raises: `catch (error) { reject(error); }`
GuardThrow ==
    \E a \in 1..Len(acts) :
        /\ RunningGuard(a)
        /\ acts' = [acts EXCEPT ![a].st = "threw",
                                ![a].promise = "rejected",
                                ![a].val = GuardError(acts[a].idx)]
        /\ stack' = Pop
        /\ UNCHANGED <<middlewares, request, guardCalls, nextCalls, handlerCalls, callVars, formVars, wrapVars>>

\* a guard that returned invokes the continuation it kept, in a later task
GuardLateNext ==
    \E a \in 1..Len(acts) :
        /\ stack = <<>>
        /\ acts[a].st = "returned"
        /\ ~IsHandlerIndex(acts[a].idx)
        /\ Continuation(a)

\* handler(request) returns a value: `return await handler(request)`
HandlerReturn ==
    \E a \in 1..Len(acts), v \in HandlerValues :
        /\ RunningHandler(a)
        /\ acts' = [acts EXCEPT ![a].st = "returned",
                                ![a].promise = "fulfilled",
                                ![a].val = v]
        /\ stack' = Pop
        /\ UNCHANGED <<middlewares, request, guardCalls, nextCalls, handlerCalls, callVars, formVars, wrapVars>>

\* handler(request) throws, or the promise it returns rejects
HandlerThrow ==
    \E a \in 1..Len(acts) :
        /\ RunningHandler(a)
        /\ acts' = [acts EXCEPT ![a].st = "threw",
                                ![a].promise = "rejected",
                                ![a].val = HandlerError]
        /\ stack' = Pop
        /\ UNCHANGED <<middlewares, request, guardCalls, nextCalls, handlerCalls, callVars, formVars, wrapVars>>

\* handler(request) returns a promise that never settles
HandlerStall ==
    \E a \in 1..Len(acts) :
        /\ RunningHandler(a)
        /\ acts' = [acts EXCEPT ![a].st = "returned"]
        /\ stack' = Pop
        /\ UNCHANGED <<middlewares, request, guardCalls, nextCalls, handlerCalls, callVars, formVars, wrapVars>>

\* `resolve(await execute(index + 1))` resumes in the parent's continuation:
\* a fulfilled child resolves the parent's Promise (a no-op once settled), a
\* rejected child rejects only the continuation's own promise
Resume ==
    \E c \in 1..Len(acts) :
        /\ stack = <<>>
        /\ acts[c].parent # 0
        /\ acts[c].promise # "pending"
        /\ ~acts[c].delivered
        /\ LET p == acts[c].parent IN
           acts' = IF acts[c].promise = "fulfilled" /\ acts[p].promise = "pending"
                   THEN [acts EXCEPT ![c].delivered = TRUE,
                                     ![p].promise = "fulfilled",
                                     ![p].val = acts[c].val]
                   ELSE [acts EXCEPT ![c].delivered = TRUE]
        /\ UNCHANGED <<middlewares, request, stack, guardCalls, nextCalls, handlerCalls, callVars, formVars, wrapVars>>

(***************************************************************************)
(* Firestore documents and the inputs of PgBaseModel.call                  *)
(***************************************************************************)
\* document ids are 1..NumIds, in the store's native (id) order
NumIds == 4
\* most backup specs in dbData.backups
MaxBackups == 2
\* most sequential calls of PgBaseModel.call
MaxCalls == 2

Ids == 1..NumIds
\* `let ref = undefined`: no document id
NoRef == 0

\* a field the object does not have (reads as undefined)
Absent == "absent"
Fields == {"email", "reference"}
Rec(e, r) == [email |-> e, reference |-> r]
EmptyRec == Rec(Absent, Absent)

Collections == {"users"}
NoDoc == [exists |-> FALSE, fields |-> EmptyRec]
Doc(rec) == [exists |-> TRUE, fields |-> rec]
EmptyCollection == [id \in Ids |-> NoDoc]

\* the collections a run may start from
InitCollections ==
    { EmptyCollection,
      [EmptyCollection EXCEPT ![2] = Doc(Rec("a", Absent))],
      [EmptyCollection EXCEPT ![1] = Doc(Rec("b", "b")), ![2] = Doc(Rec("a", "b"))],
      [EmptyCollection EXCEPT ![1] = Doc(Rec("a", "b")), ![3] = Doc(Rec("a", Absent))] }

\* result.data: `defined` is false for a Message without data; its only
\* label is "user"
NoData == [defined |-> FALSE, rec |-> EmptyRec]
ProcDatas ==
    { NoData,
      [defined |-> TRUE, rec |-> Rec("a", Absent)],
      [defined |-> TRUE, rec |-> Rec("a", "b")],
      [defined |-> TRUE, rec |-> Rec(Absent, "b")] }

\* PgBackup: whereKeys is undefined ("none"), a string or an array of keys
PgBackup(label, kind, ks, ref) ==
    [backupDb |-> "users", dbLabel |-> label, whereKind |-> kind, keys |-> ks,
     firestorReference |-> ref]

BackupSpecs ==
    { PgBackup("user", "string", <<"email">>, NoRef),
      PgBackup("user", "array", <<"email", "reference">>, NoRef),
      PgBackup("user", "none", <<>>, NoRef),
      PgBackup("user", "string", <<"email">>, 1),
      PgBackup("user", "array", <<>>, NoRef),
      PgBackup("user", "none", <<>>, 1),
      PgBackup("ghost", "string", <<"email">>, NoRef),
      PgBackup("ghost", "none", <<>>, NoRef),
      PgBackup("ghost", "none", <<>>, 1) }

NoBackups == [given |-> FALSE, list |-> <<>>]
BackupLists(n) ==
    UNION { [1..k -> BackupSpecs] : k \in 0..n }

(***************************************************************************)
(* FirebaseModel: findWhere, save, doBackup                                *)
(***************************************************************************)
\* an object that has every label
HasEntryAlways(d, label) == TRUE
HasEntry(d, label) == d.defined /\ label = "user"

\* the state of one spec's doBackup
\*   pc       lookup: findWhere's query is in flight; write: add/set is in
\*            flight; done
\*   where    the clauses given to findWhere
\*   ref      the target id (NoRef: create)
\*   body     the object given to add/set
\*   ok, out  doBackup returned the id `out` (ok) or false
\*   threw    doBackup's promise rejected
\*   found    findWhere returned, with the documents `matched`
\*   created  the write made a document that did not exist
\*   failedOp the Firestore operation that failed: lookup, write (or none)
NewBk ==
    [pc |-> "done", where |-> <<>>, ref |-> NoRef, body |-> EmptyRec,
     ok |-> FALSE, out |-> NoRef, threw |-> FALSE, found |-> FALSE,
     matched |-> {}, created |-> FALSE, failedOp |-> "none"]

\* doBackup: `catch (error) { ...; return false; }`
BackupFailureRethrown(b) == [b EXCEPT !.pc = "done", !.ok = FALSE, !.threw = TRUE]
BackupFailure(b) == [b EXCEPT !.pc = "done", !.ok = FALSE]

\* save: `delete (data as any).reference`
StripReference(rec) == [rec EXCEPT !["reference"] = Absent]

\* doBackup's `this.save(returnData[dbLabel], ref)` up to save's await: the
\* reference field is deleted from the result's own sub-record, and the
\* write of the stripped object is issued
saveStart(spec, d, b, ref) ==
    IF ~HasEntry(d, spec.dbLabel)
    THEN [d |-> d, b |-> BackupFailure(b)]
    ELSE LET stripped == StripReference(d.rec) IN
         [d |-> [d EXCEPT !.rec = stripped],
          b |-> [b EXCEPT !.pc = "write", !.ref = ref, !.body = stripped]]

\* `if(reference)`
UseReferenceOnlyWithoutKeys(spec) ==
    spec.firestorReference # NoRef /\ spec.whereKind = "none"
UseReference(spec) == spec.firestorReference # NoRef

\* `else if(whereKey)`
UseWhereKeyAlways(spec) == TRUE
UseWhereKey(spec) == spec.whereKind # "none"

\* the where clauses doBackup builds from returnData[dbLabel]
WhereClauses(spec, d) ==
    [k \in 1..Len(spec.keys) |->
        [key |-> spec.keys[k], operator |-> "==", value |-> d.rec[spec.keys[k]]]]

\* doBackup up to its first await
doBackupStart(spec, d) ==
    IF UseReference(spec)
    THEN saveStart(spec, d, NewBk, spec.firestorReference)
    ELSE IF UseWhereKey(spec)
    THEN IF ~HasEntry(d, spec.dbLabel) /\ Len(spec.keys) > 0
         THEN \* returnData[dbLabel][key] of undefined: a TypeError
              [d |-> d, b |-> BackupFailure(NewBk)]
         ELSE LET wh == WhereClauses(spec, d) IN
              IF \E k \in 1..Len(wh) : wh[k].value = Absent
              THEN \* query.where(key, "==", undefined) throws in findWhere
                   [d |-> d, b |-> BackupFailure(NewBk)]
              ELSE [d |-> d, b |-> [NewBk EXCEPT !.pc = "lookup", !.where = wh]]
    ELSE saveStart(spec, d, NewBk, NoRef)

\* `backups.map(...)`: every spec's doBackup runs up to its first await, in
\* list order, on the one result.data object
\* a loop that awaits each spec's backup before it starts the next one
StartAllInTurn(specs, i, d, acc) ==
    IF Len(specs) = 0
    THEN [d |-> d, bks |-> acc]
    ELSE LET r == doBackupStart(specs[1], d) IN [d |-> r.d, bks |-> <<r.b>>]
RECURSIVE StartAll(_, _, _, _)
StartAll(specs, i, d, acc) ==
    IF i > Len(specs)
    THEN [d |-> d, bks |-> acc]
    ELSE LET r == doBackupStart(specs[i], d) IN
         StartAll(specs, i + 1, r.d, Append(acc, r.b))

\* findWhere: the documents that satisfy every clause
FindWhereNothing(coll, wh) == {}
FindWhere(coll, wh) ==
    { id \in Ids : /\ coll[id].exists
                   /\ \A k \in 1..Len(wh) : coll[id].fields[wh[k].key] = wh[k].value }

\* `if(itemExist.length > 0)`
HasMoreThanOneMatch(matches) == Cardinality(matches) > 1
HasMatch(matches) == Cardinality(matches) > 0

\* `itemExist[0].reference`: the first match in the store's order
LastMatch(matches) == CHOOSE i \in matches : \A j \in matches : j <= i
FirstMatch(matches) == CHOOSE i \in matches : \A j \in matches : i <= j

DocIds(coll) == { id \in Ids : coll[id].exists }
Pending(b) == b.pc # "done"
Issued(bks) == Cardinality({ k \in 1..Len(bks) : Pending(bks[k]) })

(***************************************************************************)
(* PgDatabase.runStoredMethod and PgBaseModel.call                         *)
(***************************************************************************)
NoMessage == [kind |-> "none", status |-> "none", message |-> "none", data |-> NoData]
\* `result.rows[0]?.f_return_value` of an empty result
Undefined == [NoMessage EXCEPT !.kind = "undefined"]
\* the Message a procedure's row carries
ProcMessage(status, d) ==
    [kind |-> "message", status |-> status, message |-> "procedure message", data |-> d]
\* call's catch block
CallError ==
    [kind |-> "message", status |-> "error", message |-> "Unable to complete process",
     data |-> NoData]

NoPrev == [valid |-> FALSE, bk |-> <<>>, ids |-> {}, result |-> NoMessage]

\* the errors that reach call's catch block
NoError == "none"
NotExistError == "Stored procedure does not exist."
NoParamsError == "Stored procedure expects parameters but received none."
ExecutionError == "Unable to execute transaction: engine error"
UndefinedError == "TypeError: Cannot read properties of undefined (reading 'status')"
BackupError == "backup rejected"

\* the relational engine a run talks to: what its catalog answers to
\* procedureExists' query (queryError: the query fails) and how the CALL
\* statement of the procedure ends
Engines ==
    [catalog : {"exists", "absent", "queryError"},
     outcome : {"success", "error", "norow", "throws"}]
\* the lengths of this.order
Orders == 0..1

\* a call whose catch block lets the error through
CallCatchRethrows ==
    /\ result' = [NoMessage EXCEPT !.kind = "raised"]
    /\ pc' = "returned"

\* call's `catch (error)`: the Message returned when anything inside throws;
\* prev keeps the backups and the document ids the previous call left
CallCatch ==
    /\ result' = CallError
    /\ pc' = "returned"

\* dbData is given to call: `await this.runStoredMethod(...)` begins with
\* procedureExists' query
CallStart ==
    /\ pc \in {"idle", "returned"}
    /\ calls < callLimit
    /\ calls' = calls + 1
    /\ pc' = "exists"
    /\ bk' = <<>>
    /\ returnValue' = NoMessage
    /\ result' = NoMessage
    /\ storeOps' = 0
    /\ prev' = [valid |-> calls > 0, bk |-> bk, ids |-> DocIds(store["users"]),
                result |-> result]
    /\ error' = NoError
    /\ execs' = 0
    /\ UNCHANGED <<store, backups, procData, callLimit, dbDestroyed, pg, order, pipeVars, formVars, wrapVars>>

\* a query on a destroyed Knex handle fails
HandleClosed == dbDestroyed

\* procedureExists: `result.rows[0]?.exists || false`, and false when the
\* query fails
ExistsUnlessAbsent(answer) == answer # "absent"
Exists(answer) == answer = "exists"

\* `!Array.isArray(parameters) || parameters.length === 0`
NoParametersNever(n) == FALSE
NoParameters(n) == n = 0

\* procedureExists answers (a failed query answers false), then the
\* parameter list is checked
ProcedureExists ==
    LET answer == IF HandleClosed THEN "queryError" ELSE pg.catalog IN
        /\ pc = "exists"
        /\ IF ~Exists(answer)
           THEN \* throw new Error(`... does not exist.`)
                /\ CallCatch
                /\ error' = NotExistError
                /\ returnValue' = returnValue
           ELSE IF NoParameters(order)
           THEN \* throw new Error(`... expects parameters but received none.`)
                /\ CallCatch
                /\ error' = NoParamsError
                /\ returnValue' = returnValue
           ELSE /\ pc' = "exec"
                /\ UNCHANGED <<returnValue, result, error>>
        /\ UNCHANGED <<store, backups, procData, callLimit, calls, bk, dbDestroyed,
                       storeOps, prev, pg, order, execs, pipeVars, formVars, wrapVars>>

\* `returnValue.status === 'success' && backups`
BackupWhenGiven(rv) == backups.given
BackupWanted(rv) == rv.status = "success" /\ backups.given

\* the CALL statement ends; `finally { this.db.destroy(); }`; call goes on
\* with what runStoredMethod returned or threw
ExecuteProcedure ==
    LET outcome == pg.outcome IN
        /\ pc = "exec"
        /\ execs' = execs + 1
        /\ dbDestroyed' = TRUE
        /\ IF outcome = "throws"
           THEN \* throw new Error("Unable to execute transaction: " + error)
                /\ CallCatch
                /\ error' = ExecutionError
                /\ UNCHANGED <<returnValue, bk, storeOps>>
           ELSE IF outcome = "norow"
           THEN \* returnValue.status of undefined: a TypeError
                /\ CallCatch
                /\ error' = UndefinedError
                /\ returnValue' = Undefined
                /\ UNCHANGED <<bk, storeOps>>
           ELSE LET rv == ProcMessage(outcome, procData) IN
                IF BackupWanted(rv)
                THEN LET r == StartAll(backups.list, 1, rv.data, <<>>) IN
                     /\ returnValue' = [rv EXCEPT !.data = r.d]
                     /\ bk' = r.bks
                     /\ storeOps' = Issued(r.bks)
                     /\ pc' = "backup"
                     /\ UNCHANGED <<result, error>>
                ELSE /\ returnValue' = rv
                     /\ result' = rv
                     /\ pc' = "returned"
                     /\ UNCHANGED <<bk, storeOps, error>>
        /\ UNCHANGED <<store, backups, procData, callLimit, calls, prev, pg, order,
                       pipeVars, formVars, wrapVars>>

\* findWhere's query of backup b ends: it failed, or it returned its matches
\* and doBackup goes on to save
Lookup ==
    \E b \in 1..Len(bk), fails \in BOOLEAN :
        /\ bk[b].pc = "lookup"
        /\ LET spec == backups.list[b] IN
           IF fails
           THEN \* throw new Error(`findWhere: ${error}`), caught by doBackup
                /\ bk' = [bk EXCEPT ![b] = BackupFailure([@ EXCEPT !.failedOp = "lookup"])]
                /\ UNCHANGED <<returnValue, storeOps>>
           ELSE LET matches == FindWhere(store[spec.backupDb], bk[b].where)
                    ref == IF HasMatch(matches) THEN FirstMatch(matches) ELSE NoRef
                    r == saveStart(spec, returnValue.data,
                                   [bk[b] EXCEPT !.found = TRUE, !.matched = matches], ref)
                IN /\ bk' = [bk EXCEPT ![b] = r.b]
                   /\ returnValue' = [returnValue EXCEPT !.data = r.d]
                   /\ storeOps' = storeOps + 1
        /\ UNCHANGED <<store, backups, procData, callLimit, calls, pc, result,
                       dbDestroyed, prev, pg, order, error, execs, pipeVars, formVars, wrapVars>>

\* `collection.doc(id).set(data)`: the document is replaced by data
SetDocMerge(old, body) ==
    Doc([f \in Fields |-> IF body[f] # Absent THEN body[f] ELSE old.fields[f]])
SetDoc(old, body) == Doc(body)

\* the write of backup b ends: collection.add(data) with a new id, or
\* collection.doc(id).set(data); a failed write makes save return false
Write ==
    \E b \in 1..Len(bk), fails \in BOOLEAN :
        /\ bk[b].pc = "write"
        /\ LET c == backups.list[b].backupDb IN
           IF fails
           THEN /\ bk' = [bk EXCEPT ![b] = BackupFailure([@ EXCEPT !.failedOp = "write"])]
                /\ UNCHANGED store
           ELSE IF bk[b].ref = NoRef
           THEN \E id \in Ids \ DocIds(store[c]) :
                   /\ store' = [store EXCEPT ![c][id] = Doc(bk[b].body)]
                   /\ bk' = [bk EXCEPT ![b].pc = "done", ![b].ok = TRUE,
                                       ![b].out = id, ![b].created = TRUE]
           ELSE /\ store' = [store EXCEPT ![c][bk[b].ref] = SetDoc(@, bk[b].body)]
                /\ bk' = [bk EXCEPT ![b].pc = "done", ![b].ok = TRUE,
                                    ![b].out = bk[b].ref,
                                    ![b].created = ~store[c][bk[b].ref].exists]
        /\ UNCHANGED <<backups, procData, callLimit, calls, pc, returnValue, result,
                       dbDestroyed, storeOps, prev, pg, order, error, execs, pipeVars, formVars, wrapVars>>

\* `await Promise.all(...)` settles: it rejects once a backup's promise
\* rejected, and is fulfilled when every backup is done; `return returnValue`
CallReturn ==
    /\ pc = "backup"
    /\ IF \E b \in 1..Len(bk) : bk[b].threw
       THEN /\ CallCatch
            /\ error' = BackupError
       ELSE /\ \A b \in 1..Len(bk) : ~Pending(bk[b])
            /\ result' = returnValue
            /\ pc' = "returned"
            /\ UNCHANGED error
    /\ UNCHANGED <<store, backups, procData, callLimit, calls, returnValue, bk,
                   dbDestroyed, storeOps, prev, pg, order, execs, pipeVars, formVars, wrapVars>>

\* a new PgBaseModel is constructed around a fresh Knex instance
NewModel ==
    /\ pc = "returned"
    /\ dbDestroyed
    /\ dbDestroyed' = FALSE
    /\ UNCHANGED <<store, backups, procData, callLimit, calls, pc, returnValue, bk,
                   result, storeOps, prev, pg, order, error, execs, pipeVars, formVars, wrapVars>>

(***************************************************************************)
(* PgFormData.values                                                       *)
(***************************************************************************)
\* longest order given to PgFormData
MaxOrder == 2

\* JavaScript values a field may hold; val is the value's text (the JSON
\* text of an object or array)
JsUndefined == [type |-> "undefined", val |-> "undefined"]
JsNull == [type |-> "null", val |-> "null"]
JsValues ==
    { JsUndefined, JsNull,
      [type |-> "number", val |-> "0"], [type |-> "number", val |-> "7"],
      [type |-> "string", val |-> ""], [type |-> "string", val |-> "x"],
      [type |-> "boolean", val |-> "false"],
      [type |-> "object", val |-> "{\"k\":1}"],
      [type |-> "array", val |-> "[1]"] }

\* the names the field bag has, and the names an order may hold
FieldNames == {"a", "b"}
OrderNames == {"a", "b", "c"}
FormDatas == [FieldNames -> JsValues]
FormOrders(n) == UNION { [1..k -> OrderNames] : k \in 0..n }

NoValues == [read |-> FALSE, list |-> <<>>]

\* `this.data[key]`
Get(d, key) == IF key \in DOMAIN d THEN d[key] ELSE JsUndefined

\* `typeof value`
TypeOf(v) == IF v.type \in {"null", "object", "array"} THEN "object" ELSE v.type

\* `value !== null && typeof value === 'object'`
IsObjectByTypeOnly(v) == TypeOf(v) = "object"
IsObject(v) == v # JsNull /\ TypeOf(v) = "object"

\* JSON.stringify(value): the string of the value's JSON text
JSONStringify(v) == [type |-> "string", val |-> v.val]

\* the callback of `this.order.map`
MapKey(d, key) ==
    LET value == Get(d, key) IN
    IF value = JsUndefined THEN JsNull
    ELSE IF IsObject(value) THEN JSONStringify(value)
    ELSE value

\* `get values()`
PgFormDataValues(d, o) == [k \in 1..Len(o) |-> MapKey(d, o[k])]

\* the getter is read
ReadValues ==
    /\ ~values.read
    /\ values' = [read |-> TRUE, list |-> PgFormDataValues(formData, formOrder)]
    /\ UNCHANGED <<formData, formOrder, pipeVars, callVars, wrapVars>>

(***************************************************************************)
(* callableFunctionWrapper                                                 *)
(***************************************************************************)
NoReply == [kind |-> "none", val |-> NoVal]
\* the envelopes the wrapper builds
ConcludeError == "error: Unable to conclude process"
NetworkError == "error: Poor network connections!"
\* the Messages a callback may return
CallbackMessages == {"success: done", "error: refused"}

\* the middleWares list: isConfirmedApp, then isAuthorizedUser if withAuth
MiddleWaresLength(wa) == IF wa THEN 2 ELSE 1

\* what guard i checks: req.app (isConfirmedApp) or req.auth
\* (isAuthorizedUser) is not undefined
GuardInputAlways(i) == TRUE
GuardInput(i) == IF i = 0 THEN app ELSE auth

\* the guard on top of the stack
TopGuardIndex == acts[Top].idx

\* isConfirmedApp / isAuthorizedUser: `throw new Error(...)`
CheckThrows ==
    /\ stack # <<>> /\ RunningGuard(Top)
    /\ ~GuardInput(TopGuardIndex)
    /\ GuardThrow

\* isConfirmedApp / isAuthorizedUser: `next()`
CheckNext ==
    /\ stack # <<>> /\ RunningGuard(Top)
    /\ GuardInput(TopGuardIndex)
    /\ nextCalls[TopGuardIndex] = 0
    /\ GuardNext

\* isConfirmedApp / isAuthorizedUser return after next() returned
CheckReturn ==
    /\ stack # <<>> /\ RunningGuard(Top)
    /\ GuardInput(TopGuardIndex)
    /\ nextCalls[TopGuardIndex] > 0
    /\ GuardReturn

\* the handler given to chainMiddlewares: `return await callback(request)`
CallbackReturns ==
    \E a \in 1..Len(acts), m \in CallbackMessages :
        /\ RunningHandler(a)
        /\ acts' = [acts EXCEPT ![a].st = "returned",
                                ![a].promise = "fulfilled",
                                ![a].val = m]
        /\ stack' = Pop
        /\ UNCHANGED <<middlewares, request, guardCalls, nextCalls, handlerCalls,
                       callVars, formVars, wrapVars>>

\* the callback throws: the handler's catch returns the error envelope
CallbackThrows ==
    \E a \in 1..Len(acts) :
        /\ RunningHandler(a)
        /\ acts' = [acts EXCEPT ![a].st = "returned",
                                ![a].promise = "fulfilled",
                                ![a].val = ConcludeError]
        /\ stack' = Pop
        /\ callbackThrew' = TRUE
        /\ UNCHANGED <<middlewares, request, guardCalls, nextCalls, handlerCalls,
                       callVars, formVars, withAuth, app, auth, reply>>

\* `return await chainMiddlewares(...)`, or the catch around it
WrapperReply ==
    /\ reply = NoReply
    /\ stack = <<>>
    /\ acts # <<>>
    /\ acts[1].promise # "pending"
    /\ reply' = IF acts[1].promise = "fulfilled"
                THEN [kind |-> "returned", val |-> acts[1].val]
                ELSE [kind |-> "returned", val |-> NetworkError]
    /\ UNCHANGED <<pipeVars, callVars, formVars, withAuth, app, auth, callbackThrew>>

(***************************************************************************)
(* Specifications                                                          *)
(***************************************************************************)
\* no pipeline runs
PipelineIdle ==
    /\ middlewares = 0
    /\ request = "r1"
    /\ acts = <<>>
    /\ stack = <<>>
    /\ guardCalls = [i \in 0..(MaxGuards + 1) |-> 0]
    /\ nextCalls = [i \in 0..(MaxGuards + 1) |-> 0]
    /\ handlerCalls = 0

\* no PgFormData is read
FormIdle ==
    /\ formData = [f \in FieldNames |-> JsUndefined]
    /\ formOrder = <<>>
    /\ values = NoValues

\* no callable is running
WrapIdle ==
    /\ withAuth = FALSE
    /\ app = FALSE
    /\ auth = FALSE
    /\ callbackThrew = FALSE
    /\ reply = NoReply

\* no call was made yet
CallIdle ==
    /\ calls = 0
    /\ pc = "idle"
    /\ returnValue = NoMessage
    /\ bk = <<>>
    /\ result = NoMessage
    /\ dbDestroyed = FALSE
    /\ storeOps = 0
    /\ prev = NoPrev
    /\ error = NoError
    /\ execs = 0

\* one call with up to MaxBackups backup specs
InitCall ==
    /\ PipelineIdle
    /\ CallIdle
    /\ store \in [Collections -> InitCollections]
    /\ backups \in {NoBackups} \cup
                   { [given |-> TRUE, list |-> l] : l \in BackupLists(MaxBackups) }
    /\ procData \in ProcDatas
    /\ callLimit = 1
    /\ FormIdle
    /\ WrapIdle
    /\ pg \in Engines
    /\ order \in Orders

\* up to MaxCalls calls in sequence with the same dbData of one backup spec
InitTwice ==
    /\ PipelineIdle
    /\ CallIdle
    /\ store \in [Collections -> InitCollections]
    /\ backups \in { [given |-> TRUE, list |-> <<s>>] : s \in BackupSpecs }
    /\ procData \in ProcDatas
    /\ callLimit = MaxCalls
    /\ FormIdle
    /\ WrapIdle
    /\ pg \in Engines
    /\ order \in Orders

NextCall ==
    \/ CallStart
    \/ ProcedureExists
    \/ ExecuteProcedure
    \/ Lookup
    \/ Write
    \/ CallReturn
    \/ NewModel

SpecCall == InitCall /\ [][NextCall]_vars
SpecTwice == InitTwice /\ [][NextCall]_vars

InitPipeline ==
    /\ middlewares \in 0..MaxGuards
    /\ request \in Requests
    /\ acts = <<>>
    /\ stack = <<>>
    /\ guardCalls = [i \in 0..(MaxGuards + 1) |-> 0]
    /\ nextCalls = [i \in 0..(MaxGuards + 1) |-> 0]
    /\ handlerCalls = 0
    /\ CallIdle
    /\ store = [c \in Collections |-> EmptyCollection]
    /\ backups = NoBackups
    /\ procData = NoData
    /\ callLimit = 0
    /\ pg = [catalog |-> "exists", outcome |-> "success"]
    /\ order = 1
    /\ FormIdle
    /\ WrapIdle

NextPipeline ==
    \/ ChainStart
    \/ GuardNext
    \/ GuardReturn
    \/ GuardThrow
    \/ GuardLateNext
    \/ HandlerReturn
    \/ HandlerThrow
    \/ HandlerStall
    \/ Resume

SpecPipeline == InitPipeline /\ [][NextPipeline]_vars

\* the event loop runs every continuation whose awaited promise settled, and
\* a guard that was called returns to its caller
SpecPipelineFair ==
    SpecPipeline /\ WF_vars(Resume) /\ WF_vars(GuardReturn)

\* no procedure is called
CallUnused ==
    /\ CallIdle
    /\ store = [c \in Collections |-> EmptyCollection]
    /\ backups = NoBackups
    /\ procData = NoData
    /\ callLimit = 0
    /\ pg = [catalog |-> "exists", outcome |-> "success"]
    /\ order = 1

\* a PgFormData is built from a field bag and an order
InitForm ==
    /\ PipelineIdle
    /\ CallUnused
    /\ WrapIdle
    /\ formData \in FormDatas
    /\ formOrder \in FormOrders(MaxOrder)
    /\ values = NoValues

NextForm == ReadValues

SpecForm == InitForm /\ [][NextForm]_vars

\* a request arrives at a callable built by callableFunctionWrapper
InitWrapper ==
    /\ withAuth \in BOOLEAN
    /\ app \in BOOLEAN
    /\ auth \in BOOLEAN
    /\ callbackThrew = FALSE
    /\ reply = NoReply
    /\ middlewares = MiddleWaresLength(withAuth)
    /\ request \in Requests
    /\ acts = <<>>
    /\ stack = <<>>
    /\ guardCalls = [i \in 0..(MaxGuards + 1) |-> 0]
    /\ nextCalls = [i \in 0..(MaxGuards + 1) |-> 0]
    /\ handlerCalls = 0
    /\ CallUnused
    /\ FormIdle

NextWrapper ==
    \/ ChainStart
    \/ CheckThrows
    \/ CheckNext
    \/ CheckReturn
    \/ CallbackReturns
    \/ CallbackThrows
    \/ HandlerStall
    \/ Resume
    \/ WrapperReply

SpecWrapper == InitWrapper /\ [][NextWrapper]_vars

\* the promise chainMiddlewares returned: it follows execute(StartIndex)
Started == acts # <<>>
ChainPromise == IF Started THEN acts[1].promise ELSE "pending"
ChainValue == IF Started THEN acts[1].val ELSE NoVal

\* nothing is running and no settlement waits to be delivered
Quiet ==
    /\ Started
    /\ stack = <<>>
    /\ \A c \in 1..Len(acts) :
          acts[c].parent # 0 /\ acts[c].promise # "pending" => acts[c].delivered

(***************************************************************************)
(* Claims about chainMiddlewares (SpecPipeline)                            *)
(***************************************************************************)
GuardIndexes == 0..(middlewares - 1)

\* activations of guards that raised
Raised == {a \in 1..Len(acts) : acts[a].st = "threw" /\ ~IsHandlerIndex(acts[a].idx)}

\* C2: in every execution the handler is invoked at most once, and only if
\* every guard has invoked its continuation.
C2_HandlerAtMostOnce ==
    /\ handlerCalls <= 1
    /\ handlerCalls > 0 => \A i \in GuardIndexes : nextCalls[i] > 0

\* C3: if guard i raises an error, no guard with a greater index and not the
\* handler is ever invoked in that execution.
C3_RaiseStopsChain ==
    \A a \in Raised :
        /\ handlerCalls = 0
        /\ \A j \in GuardIndexes : j > acts[a].idx => guardCalls[j] = 0

\* C4: if a guard at any index raises an error, the promise chainMiddlewares
\* returned rejects with that error: once every pending continuation has
\* resumed, the promise is rejected with an error a guard raised.
C4_RaiseRejectsChain ==
    (Quiet /\ Raised # {}) =>
        /\ ChainPromise = "rejected"
        /\ \E a \in Raised : ChainValue = acts[a].val

\* C5: guard i+1 is never invoked before guard i has invoked its
\* continuation: it is invoked no more often than that continuation, and
\* only after guard i was invoked itself.
C5_GuardsInOrder ==
    \A i \in GuardIndexes :
        (i + 1) \in GuardIndexes =>
            /\ guardCalls[i + 1] <= nextCalls[i]
            /\ guardCalls[i + 1] > 0 => guardCalls[i] > 0

\* guard 1 was started through guard 0's continuation
C5_Witness ==
    /\ middlewares = 2
    /\ guardCalls[1] = 1
    /\ nextCalls[0] = 1

(***************************************************************************)
(* Claims about PgBaseModel.call and the backups (SpecCall, SpecTwice)     *)
(***************************************************************************)
SpecOf(b) == backups.list[b]
\* the spec has lookupKeys and no explicitReference
LookupSpec(spec) == spec.firestorReference = NoRef /\ spec.whereKind # "none"
\* the spec has neither
CreateSpec(spec) == spec.firestorReference = NoRef /\ spec.whereKind = "none"

\* the documents of collection coll equal to the clauses' values on every key
EqualOnKeys(coll, wh) ==
    { id \in DocIds(coll) :
        \A k \in 1..Len(wh) : coll[id].fields[wh[k].key] = wh[k].value }

\* backup b's query returns in this step
LookupReturns(b) == bk[b].pc = "lookup" /\ bk'[b].pc = "write"
\* backup b's write succeeds in this step
WriteSucceeds(b) == bk[b].pc = "write" /\ bk'[b].pc = "done" /\ bk'[b].ok

\* C1: a backup with lookupKeys and no explicitReference, made while the
\* collection holds a document equal to the record on every lookup key,
\* targets such a document: its write goes to that id, replaces that
\* document and leaves the collection's set of ids unchanged.
C1_ExistingMatchIsTarget ==
    [][\A b \in 1..Len(bk) :
         (Len(bk') = Len(bk) /\ LookupSpec(SpecOf(b))) =>
            LET coll == store[SpecOf(b).backupDb] IN
            /\ (LookupReturns(b) /\ EqualOnKeys(coll, bk[b].where) # {}) =>
                  bk'[b].ref \in EqualOnKeys(coll, bk[b].where)
            /\ (WriteSucceeds(b) /\ bk[b].matched # {}) =>
                  /\ bk[b].ref \in bk[b].matched
                  /\ bk'[b].out = bk[b].ref
                  /\ DocIds(store'[SpecOf(b).backupDb]) = DocIds(coll)
                  /\ store'[SpecOf(b).backupDb][bk[b].ref] = Doc(bk[b].body)]_vars

\* a lookup backup found a match and wrote to it
C1_Witness ==
    \E b \in 1..Len(bk) :
        /\ LookupSpec(SpecOf(b))
        /\ bk[b].matched # {}
        /\ bk[b].pc = "done" /\ bk[b].ok
        /\ bk[b].out \in bk[b].matched
        /\ ~bk[b].created

\* C6: when the procedure's result has status success, a failed Firestore
\* operation of one backup leaves the Message returned unchanged (the
\* procedure's success result), no backup's promise rejects, and every
\* backup has run to its end when the call returns.
C6_BackupFailureIsSoft ==
    /\ \A b \in 1..Len(bk) : ~bk[b].threw
    /\ (pc = "returned" /\ returnValue.status = "success") =>
          /\ result = returnValue
          /\ result.status = "success"
          /\ result.message = "procedure message"
          /\ \A b \in 1..Len(bk) : ~Pending(bk[b])

\* one backup's Firestore operation failed, another backup wrote, and the
\* call returned
C6_Witness ==
    /\ pc = "returned"
    /\ result.status = "success"
    /\ \E b1, b2 \in 1..Len(bk) :
          /\ bk[b1].failedOp # "none"
          /\ bk[b2].ok

\* the running call repeats the previous call, whose one backup wrote
RepeatsWrittenBackup ==
    /\ calls >= 2
    /\ prev.valid
    /\ Len(prev.bk) = 1 /\ prev.bk[1].ok
    /\ Len(bk) = 1
    /\ LookupSpec(SpecOf(1))

KeysOf(spec) == { spec.keys[k] : k \in 1..Len(spec.keys) }

\* the second call resolves the first call's target and adds no document
SameTargetNoDuplicate ==
    /\ DocIds(store[SpecOf(1).backupDb]) = prev.ids
    /\ bk[1].found => bk[1].ref = prev.bk[1].out
    /\ bk[1].ok => bk[1].out = prev.bk[1].out

\* C7 as stated: a call repeated with the same lookupKeys-based spec and the
\* same result data, after the first call's write succeeded, resolves to the
\* first call's target id and leaves the number of documents unchanged.
C7_Idempotent ==
    RepeatsWrittenBackup => SameTargetNoDuplicate

\* C7 amended: the same, for a spec whose lookup keys do not include the
\* `reference` field, which save never writes.
C7_IdempotentWithoutReferenceKey ==
    (RepeatsWrittenBackup /\ "reference" \notin KeysOf(SpecOf(1))) =>
        SameTargetNoDuplicate

\* the first call created a document and the second wrote to it again
C7_Witness ==
    /\ RepeatsWrittenBackup
    /\ "reference" \notin KeysOf(SpecOf(1))
    /\ SpecOf(1).keys # <<>>
    /\ prev.bk[1].created
    /\ bk[1].ok
    /\ bk[1].out = prev.bk[1].out

\* C8: a backup whose spec has explicitReference runs no findWhere and its
\* write targets exactly that id, whatever lookupKeys it also has.
C8_ExplicitReferenceWins ==
    \A b \in 1..Len(bk) :
        SpecOf(b).firestorReference # NoRef =>
            /\ bk[b].pc # "lookup"
            /\ ~bk[b].found
            /\ bk[b].failedOp # "lookup"
            /\ bk[b].pc = "write" => bk[b].ref = SpecOf(b).firestorReference
            /\ bk[b].ok =>
                  /\ bk[b].out = SpecOf(b).firestorReference
                  /\ store[SpecOf(b).backupDb][bk[b].out].exists

\* the spec has both, another document matches the lookup values, and the
\* write went to the explicit reference
C8_Witness ==
    \E b \in 1..Len(bk) :
        /\ SpecOf(b).firestorReference # NoRef
        /\ SpecOf(b).whereKind # "none"
        /\ bk[b].ok
        /\ \E id \in DocIds(store["users"]) :
              /\ id # bk[b].out
              /\ \A k \in 1..Len(SpecOf(b).keys) :
                    store["users"][id].fields[SpecOf(b).keys[k]]
                        = procData.rec[SpecOf(b).keys[k]]

\* C9: a successful backup whose spec has neither explicitReference nor
\* lookupKeys adds one document with an id the collection did not hold, and
\* changes no document the collection held.
C9_NeitherAlwaysCreates ==
    [][\A b \in 1..Len(bk) :
         (Len(bk') = Len(bk) /\ CreateSpec(SpecOf(b)) /\ WriteSucceeds(b)) =>
            LET c == SpecOf(b).backupDb IN
            /\ bk'[b].out \notin DocIds(store[c])
            /\ DocIds(store'[c]) = DocIds(store[c]) \cup {bk'[b].out}
            /\ \A id \in DocIds(store[c]) : store'[c][id] = store[c][id]
            /\ ~bk[b].found]_vars

\* a backup with neither created a document while an identical one existed
C9_Witness ==
    \E b \in 1..Len(bk) :
        /\ CreateSpec(SpecOf(b))
        /\ bk[b].ok /\ bk[b].created
        /\ \E id \in DocIds(store["users"]) :
              id # bk[b].out /\ store["users"][id] = Doc(bk[b].body)

\* C10: unless runStoredMethod returned a Message with status success, the
\* call issues no Firestore operation and starts no backup.
C10_BackupOnlyOnSuccess ==
    returnValue.status # "success" =>
        /\ storeOps = 0
        /\ bk = <<>>

\* the procedure returned status error to a call that was given backups
C10_Witness ==
    /\ pc = "returned"
    /\ returnValue.kind = "message"
    /\ returnValue.status = "error"
    /\ returnValue.data.defined
    /\ backups.given /\ Len(backups.list) > 0

(***************************************************************************)
(* Claims about runStoredMethod and the result of call                     *)
(***************************************************************************)
\* runStoredMethod is running while call waits for procedureExists or for
\* the CALL statement
InRunStoredMethod(p) == p \in {"exists", "exec"}

\* C11: every invocation of runStoredMethod ends with the connection handle
\* destroyed, whether it ends in success, an execution error, procedure not
\* found or a rejected parameter list.
C11_HandleReleasedAtEnd ==
    [][(InRunStoredMethod(pc) /\ ~InRunStoredMethod(pc')) => dbDestroyed']_vars

\* C12: a second call made after a first one has completed, with the same
\* inputs and database contents, yields the same result: the status of the
\* call that returned is the status the previous call returned.
C12_SecondCallSameResult ==
    (pc = "returned" /\ prev.valid) => result.status = prev.result.status

\* C13: call never raises: whatever the engine and the document store do,
\* what it returns is a Message whose status is "success" or "error".
C13_CallNeverRaises ==
    pc = "returned" =>
        /\ result.kind = "message"
        /\ result.status \in {"success", "error"}

\* the engine failed the CALL statement and call returned an error Message
C13_Witness ==
    /\ pc = "returned"
    /\ execs = 1
    /\ error = ExecutionError
    /\ result = CallError

\* C14: invoking a procedure that is absent from the schema returns a result
\* with status "error" whose message contains "does not exist", and no CALL
\* statement is executed.
C14_AbsentProcedureReported ==
    (pc = "returned" /\ pg.catalog = "absent") =>
        /\ result.status = "error"
        /\ result.message = NotExistError
        /\ execs = 0

\* C15: when the procedure executes without error but yields no row, or a
\* row without the return-value field, the result returned has status
\* "success" with data undefined.
C15_NoRowIsSuccess ==
    (pc = "returned" /\ returnValue = Undefined) =>
        /\ result.status = "success"
        /\ ~result.data.defined

\* C16: when the engine fails the CALL, the failure is surfaced once, as a
\* result with status "error" whose message carries the underlying detail.
C16_ExecutionErrorReported ==
    (pc = "returned" /\ execs > 0 /\ pg.outcome = "throws") =>
        /\ execs = 1
        /\ result.status = "error"
        /\ result.message = ExecutionError

(***************************************************************************)
(* Claims about the pipeline's result (SpecPipelineFair, SpecPipeline)     *)
(***************************************************************************)
HandlerActs == {a \in 1..Len(acts) : IsHandlerIndex(acts[a].idx)}

\* no guard raised and no guard invoked its continuation more than once
WellBehaved ==
    /\ Raised = {}
    /\ \A i \in GuardIndexes : nextCalls[i] <= 1

HandlerReturned == \E a \in HandlerActs : acts[a].promise = "fulfilled"

ResolvedWithHandlerValue ==
    /\ ChainPromise = "fulfilled"
    /\ \E a \in HandlerActs : acts[a].promise = "fulfilled" /\ ChainValue = acts[a].val

\* each guard and then the handler were invoked once, in list order, with
\* the request given to chainMiddlewares
EachOnceInOrder ==
    /\ \A i \in GuardIndexes : guardCalls[i] = 1 /\ nextCalls[i] = 1
    /\ handlerCalls = 1
    /\ Len(acts) = middlewares + 1
    /\ \A a \in 1..Len(acts) : acts[a].idx = a - 1 /\ acts[a].req = request

\* C17: if every guard invokes its continuation exactly once without raising
\* and the handler returns v, chainMiddlewares eventually resolves with v,
\* having invoked each guard once in list order and the handler once, each
\* with the request given to the pipeline.
C17_ResolvesWithHandlerValue ==
    /\ []((WellBehaved /\ HandlerReturned) => EachOnceInOrder)
    /\ (HandlerReturned ~> (ResolvedWithHandlerValue \/ ~WellBehaved))

\* two guards each invoked their continuation once and the chain resolved
\* with the handler's value
C17_Witness ==
    /\ middlewares = 2
    /\ WellBehaved
    /\ EachOnceInOrder
    /\ ResolvedWithHandlerValue

\* C18: if the handler throws, chainMiddlewares rejects with that error,
\* for an empty guard list and for guards that all invoked their
\* continuation: once every continuation has resumed, the promise is
\* rejected with the handler's error.
C18_HandlerErrorRejectsChain ==
    (/\ Quiet
     /\ WellBehaved
     /\ handlerCalls = 1
     /\ \E a \in HandlerActs : acts[a].st = "threw") =>
        /\ ChainPromise = "rejected"
        /\ ChainValue = HandlerError

(***************************************************************************)
(* Claims about the backups of one call (SpecCall)                         *)
(***************************************************************************)
\* the Firestore operation backup b waits for ends without failure, and no
\* other backup moves
BackupStep(b) ==
    /\ Lookup \/ Write
    /\ bk'[b] # bk[b]
    /\ bk'[b].failedOp = "none"
    /\ \A c \in 1..Len(bk) : c # b => bk'[c] = bk[c]

\* C19: within one call every spec's backup is started without waiting for
\* another's, and no backup waits on another: while the backups run, every
\* spec has its backup started, and each pending backup's lookup or write
\* can complete whatever state the other backups are in.
C19_BackupsIndependent ==
    pc = "backup" =>
        /\ Len(bk) = Len(backups.list)
        /\ \A b \in 1..Len(bk) : Pending(bk[b]) => ENABLED BackupStep(b)

\* one backup's lookup and write completed while another backup's lookup is
\* still in flight
C19_Witness ==
    /\ pc = "backup"
    /\ \E b, c \in 1..Len(bk) :
          /\ b # c
          /\ bk[b].pc = "done" /\ bk[b].found /\ bk[b].ok
          /\ bk[c].pc = "lookup"

\* the procedure's data is undefined or has no such label
MissingEntry(label) == ~procData.defined \/ label = "ghost"

\* C20: if result.data has no entry for a spec's dbLabel, that spec's backup
\* ends in a soft failure: no write is issued for it (with a reference, with
\* whereKeys or with neither), its promise does not reject, and the call
\* returns the procedure's success result.
C20_MissingEntryIsSoftFailure ==
    /\ \A b \in 1..Len(bk) :
          MissingEntry(backups.list[b].dbLabel) =>
              /\ bk[b].pc # "write"
              /\ ~bk[b].ok
              /\ ~bk[b].created
              /\ ~bk[b].threw
    /\ (pc = "returned" /\ Len(bk) > 0) =>
          result.kind = "message" /\ result.status = "success"

\* a call returned success with one backup skipped for its missing entry
\* and another one written
C20_Witness ==
    /\ pc = "returned"
    /\ result.status = "success"
    /\ \E b, c \in 1..Len(bk) :
          /\ backups.list[b].dbLabel = "ghost"
          /\ procData.defined
          /\ bk[b].pc = "done" /\ ~bk[b].ok
          /\ bk[c].ok

(***************************************************************************)
(* Claims about the documents a backup writes (SpecCall)                   *)
(***************************************************************************)
MinOf(ids) == CHOOSE i \in ids : \A j \in ids : i <= j

\* C22: when the lookup matches more than one document, the backup targets
\* the first match in store order and writes only to it: every other
\* document is left unchanged and no document is created.
C22_FirstMatchOnly ==
    [][\A b \in 1..Len(bk) :
         (Len(bk') = Len(bk) /\ LookupSpec(SpecOf(b))) =>
            LET c == SpecOf(b).backupDb
                now == EqualOnKeys(store[c], bk[b].where)
            IN
            /\ (LookupReturns(b) /\ Cardinality(now) > 1) =>
                  bk'[b].ref = MinOf(now)
            /\ (WriteSucceeds(b) /\ Cardinality(bk[b].matched) > 1) =>
                  /\ bk'[b].out = MinOf(bk[b].matched)
                  /\ DocIds(store'[c]) = DocIds(store[c])
                  /\ \A id \in Ids : id # bk'[b].out => store'[c][id] = store[c][id]]_vars

\* two documents matched, the first was written and the other still matches
C22_Witness ==
    \E b \in 1..Len(bk) :
        /\ LookupSpec(SpecOf(b))
        /\ Cardinality(bk[b].matched) > 1
        /\ bk[b].pc = "done" /\ bk[b].ok
        /\ bk[b].out = MinOf(bk[b].matched)
        /\ \E id \in bk[b].matched :
              id # bk[b].out /\ id \in EqualOnKeys(store["users"], bk[b].where)

\* the record of the procedure's result without its `reference` field
WithoutReference(rec) == [f \in Fields |-> IF f = "reference" THEN Absent ELSE rec[f]]

\* C23: a write to an existing id replaces the whole document: after the
\* write succeeds the stored fields are exactly the given fields without
\* `reference` (a field of the old document that the input lacks is gone),
\* and no write of save stores a `reference` field.
C23_SetReplacesDocument ==
    [][\A b \in 1..Len(bk) :
         (Len(bk') = Len(bk) /\ WriteSucceeds(b)) =>
            LET c == SpecOf(b).backupDb
                new == store'[c][bk'[b].out]
            IN
            /\ new.exists
            /\ new.fields = WithoutReference(procData.rec)
            /\ new.fields["reference"] = Absent]_vars

\* a document that had an email and a reference was overwritten by a record
\* without email: both fields are gone
C23_Witness ==
    \E b \in 1..Len(bk) :
        /\ bk[b].ok /\ ~bk[b].created
        /\ procData.rec["email"] = Absent
        /\ procData.rec["reference"] # Absent
        /\ store["users"][bk[b].out] = Doc(EmptyRec)

\* C25: no duplicate under concurrency: if two backups of one call with the
\* same collection, lookup keys and record run concurrently and no document
\* matched beforehand, then once both have completed exactly one document
\* matches the lookup values.
C25_NoDuplicateUnderConcurrency ==
    \A b, c \in 1..Len(bk) :
        (/\ b # c
         /\ SpecOf(b) = SpecOf(c)
         /\ LookupSpec(SpecOf(b))
         /\ SpecOf(b).keys # <<>>
         /\ "reference" \notin KeysOf(SpecOf(b))
         /\ bk[b].found /\ bk[b].matched = {}
         /\ bk[c].found /\ bk[c].matched = {}
         /\ bk[b].ok /\ bk[c].ok) =>
            Cardinality(EqualOnKeys(store[SpecOf(b).backupDb], bk[b].where)) = 1

\* C26: the Message call returns with backups has the data the procedure
\* produced, field for field: no backup changes result.data, the
\* `reference` field of the backed-up sub-record included.
C26_ResultDataUntouched ==
    (pc = "returned" /\ returnValue.status = "success" /\ backups.given) =>
        result.data = procData

(***************************************************************************)
(* Claims about the rejected pipeline and the rejected call                *)
(***************************************************************************)
\* C27: whenever chainMiddlewares rejects with an error raised by a guard,
\* the handler has not been invoked in that execution, also when the guard
\* raised after it had invoked its continuation.
C27_GuardRejectionMeansNoHandler ==
    (ChainPromise = "rejected" /\ \E a \in Raised : ChainValue = acts[a].val) =>
        handlerCalls = 0

\* C28: if the existence pre-check query itself fails, runStoredMethod
\* treats the procedure as absent: it fails with the "does not exist" error,
\* executes no CALL statement, and call returns status "error".
C28_FailedPreCheckIsAbsent ==
    (pc = "returned" /\ pg.catalog = "queryError") =>
        /\ error = NotExistError
        /\ execs = 0
        /\ result.kind = "message" /\ result.status = "error"

\* the pre-check failed on an open handle and the call returned its error
C28_Witness ==
    /\ pc = "returned"
    /\ pg.catalog = "queryError"
    /\ ~dbDestroyed
    /\ order > 0
    /\ result = CallError

\* C29: a call whose parameter list is empty is rejected before execution:
\* no CALL statement is executed, call returns status "error" and performs
\* no backup.
C29_EmptyParametersRejected ==
    (pc = "returned" /\ order = 0) =>
        /\ execs = 0
        /\ result.kind = "message" /\ result.status = "error"
        /\ bk = <<>>
        /\ storeOps = 0

\* an existing procedure was called with no parameters and with backups
C29_Witness ==
    /\ pc = "returned"
    /\ order = 0
    /\ pg = [catalog |-> "exists", outcome |-> "success"]
    /\ error = NoParamsError
    /\ backups.given /\ Len(backups.list) > 0
    /\ procData.defined

(***************************************************************************)
(* Claims about PgFormData.values (SpecForm)                               *)
(***************************************************************************)
\* the field named by the k-th name of the order (undefined if absent)
FieldAt(k) ==
    IF formOrder[k] \in FieldNames THEN formData[formOrder[k]] ELSE JsUndefined

\* C21: values has exactly order.length elements and its k-th element is
\* determined by data[order[k]] alone: null if the field is absent or
\* undefined, the serialized string if the value is an object or an array,
\* and the value itself otherwise.
C21_ValuesFollowOrder ==
    values.read =>
        /\ Len(values.list) = Len(formOrder)
        /\ \A k \in 1..Len(formOrder) :
              values.list[k] =
                  IF FieldAt(k).type = "undefined" THEN JsNull
                  ELSE IF FieldAt(k).type \in {"object", "array"}
                  THEN [type |-> "string", val |-> FieldAt(k).val]
                  ELSE FieldAt(k)

\* an order of a missing name and the name of an object field: null, then
\* the object's serialized string
C21_Witness ==
    /\ values.read
    /\ formOrder = <<"c", "a">>
    /\ formData["a"].type = "object"
    /\ formData["b"] = JsNull
    /\ values.list = <<JsNull, [type |-> "string", val |-> formData["a"].val]>>

(***************************************************************************)
(* Claims about callableFunctionWrapper (SpecWrapper)                      *)
(***************************************************************************)
\* C24: the callback is invoked at most once per request, and only for a
\* request whose app is defined and, when withAuth is true, whose auth is
\* defined; an error thrown by the callback never escapes the callable: the
\* handler's promise is fulfilled with an error envelope, and what the
\* callable returns is that envelope.
C24_CallbackGuarded ==
    /\ handlerCalls <= 1
    /\ handlerCalls > 0 => (app /\ (withAuth => auth))
    /\ reply.kind \in {"none", "returned"}
    /\ callbackThrew =>
          /\ \A a \in 1..Len(acts) : acts[a].promise # "rejected"
          /\ reply # NoReply => reply = [kind |-> "returned", val |-> ConcludeError]

\* an authorized request's callback threw and the callable returned the
\* error envelope
C24_Witness ==
    /\ withAuth /\ app /\ auth
    /\ handlerCalls = 1
    /\ callbackThrew
    /\ reply = [kind |-> "returned", val |-> ConcludeError]


====
